---- MODULE Spec2Model ----
(***************************************************************************)
(* State-machine model of the ObsAstro teaching scripts:                   *)
(*   code/aperture_photometry.py  (specification Spec)                     *)
(*   the derived-quantity formulas of its lines 94-103 as a pure function  *)
(*   of arbitrary table columns, areas and exposure time (SpecDerived)     *)
(*   code/image_alignment.py      (specification SpecAlign)                *)
(*                                                                         *)
(* Floating-point values are modelled as extended rationals <<n, d>>:      *)
(* d > 0 a reduced fraction, <<1,0>> = +inf, <<-1,0>> = -inf, <<0,0>> = NaN.*)
(* + - * / are exact; log10 is rounded down to a grid of 1/LogScale, the   *)
(* model's stand-in for the finite precision of a float64 result.          *)
(***************************************************************************)
EXTENDS Integers, Sequences, FiniteSets

----------------------------------------------------------------------------
(* Bounds of the model *)

MaxSources == 2

NPix == 2

LogScale == 2

(* Program constants *)

ZMAG_DEFAULT == 25

----------------------------------------------------------------------------
(* Extended-rational arithmetic standing for numpy float64 arithmetic *)

Abs(x) == IF x < 0 THEN -x ELSE x

RECURSIVE GCD(_, _)
GCD(a, b) == IF b = 0 THEN a ELSE GCD(b, a % b)

RECURSIVE Pow(_, _)
Pow(b, k) == IF k = 0 THEN 1 ELSE b * Pow(b, k - 1)

Sign(x) == IF x > 0 THEN 1 ELSE IF x < 0 THEN -1 ELSE 0

Rat(n, d) ==
    IF d = 0 THEN <<Sign(n), 0>>
    ELSE LET g == GCD(Abs(n), Abs(d))
             s == IF d < 0 THEN -1 ELSE 1
         IN  <<(s * n) \div g, (s * d) \div g>>

NaN == <<0, 0>>

PosInf == <<1, 0>>

NegInf == <<-1, 0>>

Unbound == <<>>

IsNaN(x) == x = NaN

IsFinite(x) == x[2] # 0

FSign(x) == Sign(x[1])

FNeg(x) == <<-x[1], x[2]>>

FAdd(a, b) ==
    IF IsNaN(a) \/ IsNaN(b) THEN NaN
    ELSE IF ~IsFinite(a) /\ ~IsFinite(b) THEN (IF a = b THEN a ELSE NaN)
    ELSE IF ~IsFinite(a) THEN a
    ELSE IF ~IsFinite(b) THEN b
    ELSE Rat(a[1] * b[2] + b[1] * a[2], a[2] * b[2])

FSub(a, b) == FAdd(a, FNeg(b))

FMul(a, b) ==
    IF IsNaN(a) \/ IsNaN(b) THEN NaN
    ELSE IF ~IsFinite(a) \/ ~IsFinite(b)
         THEN <<FSign(a) * FSign(b), 0>>
    ELSE Rat(a[1] * b[1], a[2] * b[2])

FDiv(a, b) ==
    IF IsNaN(a) \/ IsNaN(b) THEN NaN
    ELSE IF ~IsFinite(a) /\ ~IsFinite(b) THEN NaN
    ELSE IF ~IsFinite(a) THEN <<FSign(a) * (IF FSign(b) < 0 THEN -1 ELSE 1), 0>>
    ELSE IF ~IsFinite(b) THEN Rat(0, 1)
    ELSE IF b[1] = 0 THEN <<FSign(a), 0>>
    ELSE Rat(a[1] * b[2], a[2] * b[1])

(* a < b on the extended rationals; every comparison with NaN is false *)
FLess(a, b) ==
    IF IsNaN(a) \/ IsNaN(b) THEN FALSE
    ELSE IF ~IsFinite(a) THEN a = NegInf /\ b # NegInf
    ELSE IF ~IsFinite(b) THEN b = PosInf
    ELSE a[1] * b[2] < b[1] * a[2]

FLeq(a, b) == ~IsNaN(a) /\ ~IsNaN(b) /\ (a = b \/ FLess(a, b))

Zero == Rat(0, 1)

RECURSIVE FloorLog10(_)
FloorLog10(q) == IF q < 10 THEN 0 ELSE 1 + FloorLog10(q \div 10)

RECURSIVE CeilLog10(_)
CeilLog10(q) == IF q <= 1 THEN 0 ELSE 1 + CeilLog10((q + 9) \div 10)

(* floor(LogScale * log10(n/d)) for a positive fraction n/d *)
FloorLogScaled(n, d) ==
    LET N == Pow(n, LogScale)
        D == Pow(d, LogScale)
    IN  IF N >= D THEN FloorLog10(N \div D)
        ELSE -CeilLog10((D + N - 1) \div N)

(* np.log10: NaN for a negative argument, -inf for 0 (numpy only warns, it  *)
(* does not raise), otherwise the logarithm rounded to a finite grid. A     *)
(* float64 result keeps 53 bits, the model keeps LogScale steps per decade: *)
(* in both, log10 is monotone but two close arguments can share a result    *)
(* (in float64, 1000.0 and the next float 1000.0000000000001 do).           *)
Log10(x) ==
    IF IsNaN(x) THEN NaN
    ELSE IF FSign(x) < 0 THEN NaN
    ELSE IF FSign(x) = 0 THEN NegInf
    ELSE IF ~IsFinite(x) THEN PosInf
    ELSE Rat(FloorLogScaled(x[1], x[2]), LogScale)

(* photutils computes areas with math.pi; the model uses the rational 22/7 *)
Pi == Rat(22, 7)

----------------------------------------------------------------------------
(* numpy / astropy column helpers *)

Range(f) == {f[i] : i \in DOMAIN f}

(* element-wise column / scalar, column * scalar, column - column *)
ColDivScalar(col, s) == [i \in DOMAIN col |-> FDiv(col[i], s)]

ColMulScalar(col, s) == [i \in DOMAIN col |-> FMul(col[i], s)]

ColSubReversed(a, b) == [i \in DOMAIN a |-> FSub(a[i], b[Len(b) + 1 - i])]

ColSub(a, b) == [i \in DOMAIN a |-> FSub(a[i], b[i])]

(* a Table is a sequence of columns [name, data]; t['name'] *)
ColIndex(t, name) == CHOOSE j \in DOMAIN t : t[j].name = name

HasColumn(t, name) == \E j \in DOMAIN t : t[j].name = name

Col(t, name) == t[ColIndex(t, name)].data

ColNames(t) == [j \in DOMAIN t |-> t[j].name]

SetColumnFront(t, name, data) ==
    IF HasColumn(t, name)
    THEN [t EXCEPT ![ColIndex(t, name)].data = data]
    ELSE <<t[1]>> \o <<[name |-> name, data |-> data]>> \o Tail(t)

(* t['name'] = data: replaces the column, or appends it as the last one *)
SetColumn(t, name, data) ==
    IF HasColumn(t, name)
    THEN [t EXCEPT ![ColIndex(t, name)].data = data]
    ELSE Append(t, [name |-> name, data |-> data])

(* Table.write(format='csv'): a header line of the column names in table  *)
(* order, then one line per row                                           *)
WriteCsv(t) ==
    [exists |-> TRUE,
     header |-> ColNames(t),
     rows   |-> [i \in DOMAIN t[1].data |-> [j \in DOMAIN t |-> t[j].data[i]]]]

----------------------------------------------------------------------------
(* aperture_photometry.py: the pure computations *)

get_magnitude_abs(flux, zmag) == FAdd(FMul(Rat(-5, 2), Log10(
    IF FSign(flux) < 0 THEN FNeg(flux) ELSE flux)), zmag)

get_magnitude_plus(flux, zmag) == FAdd(FMul(Rat(5, 2), Log10(flux)), zmag)

(* def get_magnitude(flux, zmag=25.0): return -2.5*np.log10(flux) + zmag *)
get_magnitude(flux, zmag) == FAdd(FMul(Rat(-5, 2), Log10(flux)), zmag)

MagColumnAllOrNothing(flux_col) ==
    IF \E i \in DOMAIN flux_col : ~FLess(Zero, flux_col[i])
    THEN [i \in DOMAIN flux_col |-> NaN]
    ELSE [i \in DOMAIN flux_col |-> get_magnitude(flux_col[i], Rat(ZMAG_DEFAULT, 1))]

(* mag = get_magnitude(count_rate): numpy applies it entry by entry *)
MagColumn(flux_col) ==
    [i \in DOMAIN flux_col |-> get_magnitude(flux_col[i], Rat(ZMAG_DEFAULT, 1))]

MeanBkgOfApertureArea(annulus_sum, annulus_area, aperture_area) ==
    ColDivScalar(annulus_sum, aperture_area)

(* mean_bkg = phot_table['aperture_sum_1']/annulus.area ; the aperture    *)
(* area is not used on this line                                          *)
MeanBkgOf(annulus_sum, annulus_area, aperture_area) ==
    ColDivScalar(annulus_sum, annulus_area)

(* bkg_signal = mean_bkg * apertures.area *)
BkgSignalOf(mean_bkg_col, aperture_area) == ColMulScalar(mean_bkg_col, aperture_area)

(* source_counts = phot_table['aperture_sum_0'] - bkg_signal *)
SourceCountsOf(aperture_sum, bkg_signal_col) == ColSub(aperture_sum, bkg_signal_col)

(* count_rate = source_counts/imheader['EXPTIME'] *)
CountRateOf(source_counts_col, exptime) == ColDivScalar(source_counts_col, exptime)

(* r_a = 3*seeing ; r_in = r_a + 3 ; r_out = r_in + 14 *)
RadiusAperture(seeing_v) == FMul(Rat(3, 1), seeing_v)

RadiusInMinus(r) == FSub(r, Rat(3, 1))

RadiusIn(r) == FAdd(r, Rat(3, 1))

RadiusOut(rin) == FAdd(rin, Rat(14, 1))

(* photutils: CircularAperture requires r > 0 (PositiveScalar), else       *)
(* ValueError; CircularAnnulus requires r_in > 0, r_out > 0 and            *)
(* r_out > r_in, else ValueError. Neither looks at the other's radius.     *)
ApertureAcceptsAny(r) == TRUE

ApertureAccepts(r) == FLess(Zero, r)

AnnulusAccepts(rin, rout) == FLess(Zero, rin) /\ FLess(Zero, rout) /\ FLess(rin, rout)

CircleArea(r) == FMul(Pi, FMul(r, r))

AnnulusArea(rin, rout) == FMul(Pi, FSub(FMul(rout, rout), FMul(rin, rin)))

(* np.transpose((x, y)): row i is (x[i], y[i]) *)
Transpose(xs, ys) == [i \in DOMAIN xs |-> <<xs[i], ys[i]>>]

(* np.median of the pixel values: the mean of the two middle values *)
CountLeq(img, v) == Cardinality({i \in DOMAIN img : FLeq(img[i], v)})

KthSmallest(img, k) ==
    CHOOSE v \in Range(img) :
        /\ CountLeq(img, v) >= k
        /\ \A w \in Range(img) : FLess(w, v) => CountLeq(img, w) < k

Median(img) ==
    LET n == Len(img)
    IN  FDiv(FAdd(KthSmallest(img, (n + 1) \div 2), KthSmallest(img, (n + 2) \div 2)),
             Rat(2, 1))

(* the array handed to find_stars: imdata - median *)
Subtracted(img, m) == [i \in DOMAIN img |-> FSub(img[i], m)]

ImdataSubtractedInPlace(img, m) == Subtracted(img, m)

(* imdata after evaluating imdata - median: the expression builds a new   *)
(* array, imdata itself is left as it was                                 *)
ImdataAfterSubtract(img, m) == img

----------------------------------------------------------------------------
(* Input sets *)

PixelValues == {Rat(225, 1), Rat(350, 1)}

ExpTimes == {1, 2}

SeeingValues == {Rat(-1, 1), Rat(0, 1), Rat(1, 3), Rat(1, 1), Rat(5, 1)}

XCentroids == {Rat(10, 1), Rat(30, 1)}

YCentroids == {Rat(20, 1)}

ApertureSums == {Rat(99, 1), Rat(1200, 1)}

AnnulusSums == {Rat(0, 1), Rat(4004, 1)}

SeqsUpTo(S, n) == UNION {[1..k -> S] : k \in 1..n}

----------------------------------------------------------------------------
(* State *)

VARIABLES
    pc,              \* position in aperture_photometry.py
    error,           \* the exception that ended the script, or "none"
    fits_file,       \* ../images/stars10_p.fits on disk
    imheader, imdata, median, seeing, find_input, sources, positions,
    r_a, apertures, r_in, r_out, annulus,
    summation_calls, \* calls of photutils.aperture_photometry made so far
    phot_table, mean_bkg, bkg_signal, source_counts, count_rate, mag,
    csv_file,        \* photometry_example.csv on disk
    dq_in, dq_out,   \* the derived-quantity formulas applied to free inputs
    apc, aerror, image_files, heap, header_6, header_7, header_6_aligned,
    aligned_file     \* image_alignment.py

photVars == <<pc, error, fits_file, imheader, imdata, median, seeing, find_input,
              sources, positions, r_a, apertures, r_in, r_out, annulus,
              summation_calls, phot_table, mean_bkg, bkg_signal, source_counts,
              count_rate, mag, csv_file>>

dqVars == <<dq_in, dq_out>>

alignVars == <<apc, aerror, image_files, heap, header_6, header_7, header_6_aligned,
               aligned_file>>

vars == <<photVars, dqVars, alignVars>>

NoCsv == [exists |-> FALSE, header |-> <<>>, rows |-> <<>>]

PhotIdle ==
    /\ pc = "idle" /\ error = "none"
    /\ fits_file = Unbound /\ imheader = Unbound /\ imdata = Unbound
    /\ median = Unbound /\ seeing = Unbound /\ find_input = Unbound
    /\ sources = Unbound /\ positions = Unbound /\ r_a = Unbound
    /\ apertures = Unbound /\ r_in = Unbound /\ r_out = Unbound
    /\ annulus = Unbound /\ summation_calls = 0 /\ phot_table = Unbound
    /\ mean_bkg = Unbound /\ bkg_signal = Unbound /\ source_counts = Unbound
    /\ count_rate = Unbound /\ mag = Unbound /\ csv_file = NoCsv

DqIdle == dq_in = Unbound /\ dq_out = Unbound

AlignIdle ==
    /\ apc = "idle" /\ aerror = "none" /\ image_files = Unbound /\ heap = Unbound
    /\ header_6 = "unbound" /\ header_7 = "unbound"
    /\ header_6_aligned = "unbound" /\ aligned_file = Unbound

----------------------------------------------------------------------------
(* aperture_photometry.py, top to bottom *)

InitPhot ==
    /\ pc = "open" /\ error = "none"
    /\ fits_file \in [data : [1..NPix -> PixelValues], header : [EXPTIME : ExpTimes]]
    /\ imheader = Unbound /\ imdata = Unbound
    /\ median = Unbound /\ seeing = Unbound /\ find_input = Unbound
    /\ sources = Unbound /\ positions = Unbound /\ r_a = Unbound
    /\ apertures = Unbound /\ r_in = Unbound /\ r_out = Unbound
    /\ annulus = Unbound /\ summation_calls = 0 /\ phot_table = Unbound
    /\ mean_bkg = Unbound /\ bkg_signal = Unbound /\ source_counts = Unbound
    /\ count_rate = Unbound /\ mag = Unbound /\ csv_file = NoCsv

(* lines 26-34: hdu_list = fits.open(...); imheader, imdata *)
ReadFile ==
    /\ pc = "open"
    /\ UNCHANGED <<dqVars, alignVars>>
    /\ imheader' = fits_file.header
    /\ imdata' = fits_file.data
    /\ pc' = "stats"
    /\ UNCHANGED <<error, fits_file, median, seeing, find_input, sources, positions,
                   r_a, apertures, r_in, r_out, annulus, summation_calls, phot_table,
                   mean_bkg, bkg_signal, source_counts, count_rate, mag, csv_file>>

(* line 44: mean, median, std = sigma_clipped_stats(imdata, sigma=3.0);    *)
(* nothing is clipped in an image this small                               *)
BackgroundStats ==
    /\ pc = "stats"
    /\ UNCHANGED <<dqVars, alignVars>>
    /\ median' = Median(imdata)
    /\ pc' = "seeing"
    /\ UNCHANGED <<error, fits_file, imheader, imdata, seeing, find_input, sources,
                   positions, r_a, apertures, r_in, r_out, annulus, summation_calls,
                   phot_table, mean_bkg, bkg_signal, source_counts, count_rate, mag,
                   csv_file>>

(* lines 57-58: seeing = 5.0, or the value typed at the prompt *)
SetSeeing ==
    /\ pc = "seeing"
    /\ UNCHANGED <<dqVars, alignVars>>
    /\ \E s \in SeeingValues : seeing' = s
    /\ pc' = "find"
    /\ UNCHANGED <<error, fits_file, imheader, imdata, median, find_input, sources,
                   positions, r_a, apertures, r_in, r_out, annulus, summation_calls,
                   phot_table, mean_bkg, bkg_signal, source_counts, count_rate, mag,
                   csv_file>>

NoSources == [found |-> FALSE, id |-> <<>>, xcentroid |-> <<>>, ycentroid |-> <<>>]

(* lines 61-62: sources = daofind.find_stars(imdata-median); the detector  *)
(* returns None when it finds nothing, else a table of n >= 1 sources      *)
FindSources ==
    /\ pc = "find"
    /\ UNCHANGED <<dqVars, alignVars>>
    /\ find_input' = Subtracted(imdata, median)
    /\ imdata' = ImdataAfterSubtract(imdata, median)
    /\ \/ sources' = NoSources
       \/ \E xs \in SeqsUpTo(XCentroids, MaxSources) :
          \E ys \in [DOMAIN xs -> YCentroids] :
              sources' = [found |-> TRUE, id |-> [i \in DOMAIN xs |-> i],
                          xcentroid |-> xs, ycentroid |-> ys]
    /\ pc' = "print_sources"
    /\ UNCHANGED <<error, fits_file, imheader, median, seeing, positions,
                   r_a, apertures, r_in, r_out, annulus, summation_calls, phot_table,
                   mean_bkg, bkg_signal, source_counts, count_rate, mag, csv_file>>

(* line 65: sources['id','xcentroid','ycentroid'].pprint();                *)
(* subscripting None raises TypeError                                      *)
PrintSources ==
    /\ pc = "print_sources"
    /\ UNCHANGED <<dqVars, alignVars>>
    /\ IF sources.found
       THEN pc' = "positions" /\ error' = error
       ELSE pc' = "failed" /\ error' = "TypeError"
    /\ UNCHANGED <<fits_file, imheader, imdata, median, seeing, find_input, sources,
                   positions, r_a, apertures, r_in, r_out, annulus, summation_calls,
                   phot_table, mean_bkg, bkg_signal, source_counts, count_rate, mag,
                   csv_file>>

(* line 70: positions = np.transpose((sources['xcentroid'], sources['ycentroid'])) *)
ExtractPositions ==
    /\ pc = "positions"
    /\ UNCHANGED <<dqVars, alignVars>>
    /\ positions' = Transpose(sources.xcentroid, sources.ycentroid)
    /\ pc' = "aperture"
    /\ UNCHANGED <<error, fits_file, imheader, imdata, median, seeing, find_input,
                   sources, r_a, apertures, r_in, r_out, annulus, summation_calls,
                   phot_table, mean_bkg, bkg_signal, source_counts, count_rate, mag,
                   csv_file>>

(* lines 72-73: r_a = 3*seeing; apertures = CircularAperture(positions, r=r_a) *)
DefineAperture ==
    /\ pc = "aperture"
    /\ UNCHANGED <<dqVars, alignVars>>
    /\ r_a' = RadiusAperture(seeing)
    /\ IF ApertureAccepts(r_a')
       THEN /\ apertures' = [positions |-> positions, r |-> r_a',
                             area |-> CircleArea(r_a')]
            /\ pc' = "annulus" /\ error' = error
       ELSE /\ apertures' = apertures
            /\ pc' = "failed" /\ error' = "ValueError"
    /\ UNCHANGED <<fits_file, imheader, imdata, median, seeing, find_input, sources,
                   positions, r_in, r_out, annulus, summation_calls, phot_table,
                   mean_bkg, bkg_signal, source_counts, count_rate, mag, csv_file>>

(* lines 75-77: r_in = r_a + 3; r_out = r_in + 14;                         *)
(* annulus = CircularAnnulus(positions, r_in=r_in, r_out=r_out)            *)
DefineAnnulus ==
    /\ pc = "annulus"
    /\ UNCHANGED <<dqVars, alignVars>>
    /\ r_in' = RadiusIn(r_a)
    /\ r_out' = RadiusOut(r_in')
    /\ IF AnnulusAccepts(r_in', r_out')
       THEN /\ annulus' = [positions |-> positions, r_in |-> r_in', r_out |-> r_out',
                           area |-> AnnulusArea(r_in', r_out')]
            /\ pc' = "photometry" /\ error' = error
       ELSE /\ annulus' = annulus
            /\ pc' = "failed" /\ error' = "ValueError"
    /\ UNCHANGED <<fits_file, imheader, imdata, median, seeing, find_input, sources,
                   positions, r_a, apertures, summation_calls, phot_table,
                   mean_bkg, bkg_signal, source_counts, count_rate, mag, csv_file>>

(* the table photutils.aperture_photometry returns for one list of         *)
(* positions and two apertures: a row per position, in order               *)
PhotometryTable(pos, sums0, sums1) ==
    << [name |-> "id",             data |-> [i \in DOMAIN pos |-> i]],
       [name |-> "xcenter",        data |-> [i \in DOMAIN pos |-> pos[i][1]]],
       [name |-> "ycenter",        data |-> [i \in DOMAIN pos |-> pos[i][2]]],
       [name |-> "aperture_sum_0", data |-> sums0],
       [name |-> "aperture_sum_1", data |-> sums1] >>

(* lines 88-89: phot_table = aperture_photometry(imdata, [apertures, annulus]); *)
(* the sums are the library's exact-overlap sums over the image: any values *)
SumApertures ==
    /\ pc = "photometry"
    /\ UNCHANGED <<dqVars, alignVars>>
    /\ summation_calls' = summation_calls + 1
    /\ \E sums0 \in [DOMAIN apertures.positions -> ApertureSums] :
       \E sums1 \in [DOMAIN annulus.positions -> AnnulusSums] :
           phot_table' = PhotometryTable(apertures.positions, sums0, sums1)
    /\ pc' = "mean_bkg"
    /\ UNCHANGED <<error, fits_file, imheader, imdata, median, seeing, find_input,
                   sources, positions, r_a, apertures, r_in, r_out, annulus,
                   mean_bkg, bkg_signal, source_counts, count_rate, mag, csv_file>>

(* line 94 *)
MeanBackground ==
    /\ pc = "mean_bkg"
    /\ UNCHANGED <<dqVars, alignVars>>
    /\ mean_bkg' = MeanBkgOf(Col(phot_table, "aperture_sum_1"), annulus.area,
                              apertures.area)
    /\ pc' = "bkg_signal"
    /\ UNCHANGED <<error, fits_file, imheader, imdata, median, seeing, find_input,
                   sources, positions, r_a, apertures, r_in, r_out, annulus,
                   summation_calls, phot_table, bkg_signal, source_counts,
                   count_rate, mag, csv_file>>

(* lines 98-99 *)
SubtractBackground ==
    /\ pc = "bkg_signal"
    /\ UNCHANGED <<dqVars, alignVars>>
    /\ bkg_signal' = BkgSignalOf(mean_bkg, apertures.area)
    /\ source_counts' = SourceCountsOf(Col(phot_table, "aperture_sum_0"), bkg_signal')
    /\ pc' = "count_rate"
    /\ UNCHANGED <<error, fits_file, imheader, imdata, median, seeing, find_input,
                   sources, positions, r_a, apertures, r_in, r_out, annulus,
                   summation_calls, phot_table, mean_bkg, count_rate, mag, csv_file>>

(* lines 102-103: numpy evaluates the whole column; a non-positive entry   *)
(* gives a RuntimeWarning and NaN or inf in that entry, no exception       *)
ComputeMagnitude ==
    /\ pc = "count_rate"
    /\ UNCHANGED <<dqVars, alignVars>>
    /\ count_rate' = CountRateOf(source_counts, Rat(imheader.EXPTIME, 1))
    /\ mag' = MagColumn(count_rate')
    /\ pc' = "add_columns"
    /\ UNCHANGED <<error, fits_file, imheader, imdata, median, seeing, find_input,
                   sources, positions, r_a, apertures, r_in, r_out, annulus,
                   summation_calls, phot_table, mean_bkg, bkg_signal, source_counts,
                   csv_file>>

(* lines 105-106 *)
AddColumns ==
    /\ pc = "add_columns"
    /\ UNCHANGED <<dqVars, alignVars>>
    /\ phot_table' = SetColumn(SetColumn(phot_table, "count_rate", count_rate),
                               "mag", mag)
    /\ pc' = "write"
    /\ UNCHANGED <<error, fits_file, imheader, imdata, median, seeing, find_input,
                   sources, positions, r_a, apertures, r_in, r_out, annulus,
                   summation_calls, mean_bkg, bkg_signal, source_counts, count_rate,
                   mag, csv_file>>

(* line 109: phot_table.write('photometry_example.csv', format='csv', overwrite=True) *)
WriteTable ==
    /\ pc = "write"
    /\ UNCHANGED <<dqVars, alignVars>>
    /\ csv_file' = WriteCsv(phot_table)
    /\ pc' = "done"
    /\ UNCHANGED <<error, fits_file, imheader, imdata, median, seeing, find_input,
                   sources, positions, r_a, apertures, r_in, r_out, annulus,
                   summation_calls, phot_table, mean_bkg, bkg_signal, source_counts,
                   count_rate, mag>>

Next ==
    \/ ReadFile \/ BackgroundStats \/ SetSeeing \/ FindSources \/ PrintSources
    \/ ExtractPositions \/ DefineAperture \/ DefineAnnulus \/ SumApertures
    \/ MeanBackground \/ SubtractBackground \/ ComputeMagnitude \/ AddColumns
    \/ WriteTable

Init == InitPhot /\ DqIdle /\ AlignIdle

Spec == Init /\ [][Next]_vars

----------------------------------------------------------------------------
(* Properties of aperture_photometry.py, checked under Spec *)

AfterPhotometry == {"mean_bkg", "bkg_signal", "count_rate", "add_columns", "write", "done"}

AfterMagnitude == {"add_columns", "write", "done"}

Rows == DOMAIN positions

NonPositive(x) == FLeq(x, Zero)

(* C2 as stated: for every source whose count_rate is <= 0, computing the   *)
(* magnitude fails with a DomainError and yields no value at all (no       *)
(* number, NaN or infinity).                                                *)
C2_DomainErrorRaised ==
    (count_rate # Unbound /\ \E i \in DOMAIN count_rate : NonPositive(count_rate[i]))
        => (error = "DomainError" /\ mag = Unbound)

(* C2 amended: for every source whose count_rate is <= 0, computing the     *)
(* magnitude raises nothing; that row's magnitude is NaN when count_rate < 0*)
(* and +infinity when count_rate = 0, never a finite number.                *)
C2_NonPositiveGivesNaNOrInf ==
    pc \in AfterMagnitude =>
        /\ error = "none"
        /\ \A i \in Rows :
              /\ FLess(count_rate[i], Zero) => mag[i] = NaN
              /\ count_rate[i] = Zero => mag[i] = PosInf

C2_Witness ==
    /\ pc \in AfterMagnitude
    /\ \E i \in Rows : NonPositive(count_rate[i]) /\ ~IsFinite(mag[i])

(* C3 as stated: when the radii violate the geometry rules (a non-positive  *)
(* radius, r_in <= r_aperture, or r_out <= r_in) the run raises            *)
(* InvalidGeometry and no summation call has been made.                     *)
GeometryViolated ==
    \/ r_a # Unbound /\ ~FLess(Zero, r_a)
    \/ r_in # Unbound /\ (~FLess(Zero, r_in) \/ ~FLess(r_a, r_in) \/ ~FLess(r_in, r_out))

RadiusRejected ==
    \/ r_a # Unbound /\ ~FLess(Zero, r_a)
    \/ r_in # Unbound /\ (~FLess(Zero, r_in) \/ ~FLess(r_in, r_out))

C4_RowPerPositionInOrder ==
    /\ pc \in AfterPhotometry =>
          /\ \A j \in DOMAIN phot_table : Len(phot_table[j].data) = Len(positions)
          /\ \A i \in Rows :
                /\ Col(phot_table, "id")[i] = i
                /\ Col(phot_table, "xcenter")[i] = positions[i][1]
                /\ Col(phot_table, "ycenter")[i] = positions[i][2]
    /\ pc \in AfterMagnitude =>
          /\ Len(mean_bkg) = Len(positions) /\ Len(source_counts) = Len(positions)
          /\ Len(count_rate) = Len(positions) /\ Len(mag) = Len(positions)
          /\ \A i \in Rows :
                /\ FMul(mean_bkg[i], annulus.area) = Col(phot_table, "aperture_sum_1")[i]
                /\ FAdd(source_counts[i], FMul(mean_bkg[i], apertures.area))
                      = Col(phot_table, "aperture_sum_0")[i]
                /\ FMul(count_rate[i], Rat(imheader.EXPTIME, 1)) = source_counts[i]
                /\ IsFinite(mag[i]) <=> FLess(Zero, count_rate[i])
    /\ pc = "done" =>
          /\ Len(csv_file.rows) = Len(positions)
          /\ \A i \in Rows :
                /\ csv_file.rows[i][1] = i
                /\ csv_file.rows[i][2] = positions[i][1]
                /\ csv_file.rows[i][6] = count_rate[i]
                /\ csv_file.rows[i][7] = mag[i]

C4_Witness ==
    /\ pc = "done" /\ Len(positions) = 2
    /\ positions[1] # positions[2]
    /\ count_rate[1] # count_rate[2]
    /\ Len(csv_file.rows) = 2

(* C5: a source with non-positive count_rate does not abort the batch: the  *)
(* run goes on without an error, the marker (NaN or infinity) is on that    *)
(* row's magnitude only, and every row keeps its aperture_sum, annulus_sum  *)
(* and count_rate, every row with a positive count_rate its magnitude.      *)
C5_BadRowDoesNotAbortBatch ==
    /\ pc \in AfterMagnitude =>
          /\ error = "none"
          /\ \A i \in Rows :
                /\ IsFinite(Col(phot_table, "aperture_sum_0")[i])
                /\ IsFinite(Col(phot_table, "aperture_sum_1")[i])
                /\ IsFinite(count_rate[i])
                /\ FLess(Zero, count_rate[i]) => IsFinite(mag[i])
    /\ pc = "done" =>
          /\ csv_file.exists
          /\ \A i \in Rows :
                /\ csv_file.rows[i][6] = count_rate[i]
                /\ FLess(Zero, count_rate[i]) => IsFinite(csv_file.rows[i][7])

C5_Witness ==
    /\ pc = "done" /\ error = "none" /\ csv_file.exists
    /\ \E i, j \in Rows :
          /\ NonPositive(count_rate[i]) /\ ~IsFinite(mag[i])
          /\ FLess(Zero, count_rate[j]) /\ IsFinite(mag[j])

(* C6 as stated: the written table's columns are exactly id, aperture_sum,  *)
(* annulus_sum, mean_bkg, source_signal, count_rate, magnitude, in order.   *)
C6_SpecColumns ==
    csv_file.exists =>
        csv_file.header = <<"id", "aperture_sum", "annulus_sum", "mean_bkg",
                            "source_signal", "count_rate", "magnitude">>

(* C6 amended: the written table's columns are exactly id, xcenter,         *)
(* ycenter, aperture_sum_0, aperture_sum_1, count_rate, mag, in that order: *)
(* the annulus sum is written (as aperture_sum_1), the per-pixel background *)
(* and the background-subtracted signal are not.                            *)
C6_WrittenColumns ==
    csv_file.exists =>
        /\ csv_file.header = <<"id", "xcenter", "ycenter", "aperture_sum_0",
                               "aperture_sum_1", "count_rate", "mag">>
        /\ \A i \in DOMAIN csv_file.rows :
              /\ Len(csv_file.rows[i]) = 7
              /\ csv_file.rows[i][5] = Col(phot_table, "aperture_sum_1")[i]

C6_Witness ==
    /\ pc = "done" /\ csv_file.exists /\ Len(csv_file.rows) = 2
    /\ Len(csv_file.header) = 7

(* C7: a photometry run leaves its inputs unchanged: once loaded, the image *)
(* grid keeps its values through every later step, and so does the list of  *)
(* source positions once extracted; the image file is not touched either.   *)
C7_InputsUnchanged ==
    [][ /\ fits_file' = fits_file
        /\ imdata # Unbound => imdata' = imdata
        /\ positions # Unbound => positions' = positions ]_vars

C7_Witness ==
    /\ pc = "done" /\ imdata = fits_file.data
    /\ find_input # imdata
    /\ positions = Transpose(sources.xcentroid, sources.ycentroid)

(* C10: for every positive seeing the derived radii satisfy                 *)
(* 0 < r_aperture < r_in < r_out, both regions are built and no geometry    *)
(* error is raised.                                                         *)
C10_PositiveSeeingOrdersRadii ==
    (seeing # Unbound /\ FLess(Zero, seeing)) =>
        /\ r_a # Unbound => (FLess(Zero, r_a) /\ apertures # Unbound)
        /\ r_in # Unbound =>
              /\ FLess(r_a, r_in) /\ FLess(r_in, r_out)
              /\ annulus # Unbound /\ error # "ValueError"

C10_Witness ==
    /\ pc = "photometry" /\ FLess(Zero, seeing)
    /\ r_a = FMul(Rat(3, 1), seeing) /\ FLess(r_a, r_in) /\ FLess(r_in, r_out)

----------------------------------------------------------------------------
(* Lines 94-103 of aperture_photometry.py as a pure function of the table   *)
(* columns, the two areas and the exposure time, applied to free inputs     *)

DqApertureSums == {Rat(50, 1), Rat(1000, 1)}

DqAnnulusSums == {Rat(0, 1), Rat(400, 1)}

DqApertureAreas == {Rat(10, 1), Rat(15, 1)}

DqAnnulusAreas == {Rat(40, 1)}

DqExpTimes == {Rat(1, 1), Rat(2, 1)}

InitDerived ==
    /\ \E k \in 1..MaxSources :
          dq_in \in [aperture_sum : [1..k -> DqApertureSums],
                     annulus_sum : [1..k -> DqAnnulusSums],
                     aperture_area : DqApertureAreas,
                     annulus_area : DqAnnulusAreas,
                     exptime : DqExpTimes]
    /\ dq_out = Unbound

DerivedQuantities ==
    /\ dq_out = Unbound
    /\ LET mb == MeanBkgOf(dq_in.annulus_sum, dq_in.annulus_area, dq_in.aperture_area)
           bs == BkgSignalOf(mb, dq_in.aperture_area)
           sc == SourceCountsOf(dq_in.aperture_sum, bs)
           cr == CountRateOf(sc, dq_in.exptime)
       IN  dq_out' = [mean_bkg |-> mb, bkg_signal |-> bs, source_counts |-> sc,
                      count_rate |-> cr, mag |-> MagColumn(cr)]
    /\ UNCHANGED <<dq_in, photVars, alignVars>>

NextDerived == DerivedQuantities

DerivedInit == InitDerived /\ PhotIdle /\ AlignIdle

SpecDerived == DerivedInit /\ [][NextDerived]_vars

DqRows == DOMAIN dq_in.aperture_sum

(* C1: for every row, mean_bkg = annulus_sum / annulus.area, source_signal  *)
(* = aperture_sum - mean_bkg * aperture.area and count_rate = source_signal *)
(* / exposure_time (stated through the inverse operations); 1000, 400, 10,  *)
(* 40, 2 give 10, 900 and 450; annulus_sum = 0 gives mean_bkg = 0 and       *)
(* source_signal = aperture_sum.                                            *)
C1_DerivedQuantities ==
    dq_out # Unbound =>
        \A i \in DqRows :
            /\ IsFinite(dq_out.mean_bkg[i]) /\ IsFinite(dq_out.source_counts[i])
            /\ IsFinite(dq_out.count_rate[i])
            /\ FMul(dq_out.mean_bkg[i], dq_in.annulus_area) = dq_in.annulus_sum[i]
            /\ FAdd(dq_out.source_counts[i], FMul(dq_out.mean_bkg[i], dq_in.aperture_area))
                  = dq_in.aperture_sum[i]
            /\ FMul(dq_out.count_rate[i], dq_in.exptime) = dq_out.source_counts[i]
            /\ ( /\ dq_in.aperture_sum[i] = Rat(1000, 1)
                 /\ dq_in.annulus_sum[i] = Rat(400, 1)
                 /\ dq_in.aperture_area = Rat(10, 1)
                 /\ dq_in.annulus_area = Rat(40, 1)
                 /\ dq_in.exptime = Rat(2, 1) )
               => ( /\ dq_out.mean_bkg[i] = Rat(10, 1)
                    /\ dq_out.source_counts[i] = Rat(900, 1)
                    /\ dq_out.count_rate[i] = Rat(450, 1) )
            /\ dq_in.annulus_sum[i] = Zero
               => ( /\ dq_out.mean_bkg[i] = Zero
                    /\ dq_out.source_counts[i] = dq_in.aperture_sum[i] )

C1_Witness ==
    /\ dq_out # Unbound
    /\ dq_in.aperture_area = Rat(10, 1) /\ dq_in.annulus_area = Rat(40, 1)
    /\ dq_in.exptime = Rat(2, 1)
    /\ \E i, j \in DqRows :
          /\ dq_in.aperture_sum[i] = Rat(1000, 1) /\ dq_in.annulus_sum[i] = Rat(400, 1)
          /\ dq_out.count_rate[i] = Rat(450, 1)
          /\ dq_in.annulus_sum[j] = Zero /\ dq_out.mean_bkg[j] = Zero

----------------------------------------------------------------------------
(* image_alignment.py: the FITS headers. A header object lives on the heap; *)
(* header_6, header_7 and header_6_aligned are names bound to heap objects. *)

ObjectValues == {"stars06", "M51"}

ExptimeValues == {"1", "2", "30"}

FileHeaders ==
    {[k \in ks |-> ""] : ks \in {{}}}
    \cup {[OBJECT |-> o] : o \in ObjectValues}
    \cup {[EXPTIME |-> e] : e \in ExptimeValues}
    \cup [OBJECT : ObjectValues, EXPTIME : ExptimeValues]

NoHeader == [k \in {} |-> ""]

(* header[key] = value on an astropy Header: sets or adds the card *)
SetCard(h, key, value) ==
    [k \in (DOMAIN h) \cup {key} |-> IF k = key THEN value ELSE h[k]]

(* header_6_aligned = header_6: the name is bound to the same object *)
BindName(ref) == ref

InitAlign ==
    /\ apc = "load6" /\ aerror = "none"
    /\ image_files \in [stars06 : FileHeaders, stars07 : FileHeaders]
    /\ heap = [o \in {"h6", "h7"} |-> NoHeader]
    /\ header_6 = "unbound" /\ header_7 = "unbound"
    /\ header_6_aligned = "unbound" /\ aligned_file = Unbound

(* lines 17-20 *)
LoadImage6 ==
    /\ apc = "load6"
    /\ heap' = [heap EXCEPT !["h6"] = image_files.stars06]
    /\ header_6' = "h6"
    /\ apc' = "load7"
    /\ UNCHANGED <<aerror, image_files, header_7, header_6_aligned, aligned_file,
                   photVars, dqVars>>

(* lines 22-25 *)
LoadImage7 ==
    /\ apc = "load7"
    /\ heap' = [heap EXCEPT !["h7"] = image_files.stars07]
    /\ header_7' = "h7"
    /\ apc' = "transform"
    /\ UNCHANGED <<aerror, image_files, header_6, header_6_aligned, aligned_file,
                   photVars, dqVars>>

(* lines 31-38: aa.find_transform / aa.apply_transform; astroalign raises   *)
(* MaxIterError when it cannot match the two star fields                    *)
AlignImages ==
    /\ apc = "transform"
    /\ \E matched \in BOOLEAN :
          IF matched THEN apc' = "new_header" /\ aerror' = aerror
                     ELSE apc' = "failed" /\ aerror' = "MaxIterError"
    /\ UNCHANGED <<image_files, heap, header_6, header_7, header_6_aligned,
                   aligned_file, photVars, dqVars>>

(* line 43: header_6_aligned=header_6 *)
NewHeader ==
    /\ apc = "new_header"
    /\ header_6_aligned' = BindName(header_6)
    /\ apc' = "add_keyword"
    /\ UNCHANGED <<aerror, image_files, heap, header_6, header_7, aligned_file,
                   photVars, dqVars>>

(* line 44: header_6_aligned['ALINGED'] = 'Aligned to stars07_p.fits' *)
AddKeyword ==
    /\ apc = "add_keyword"
    /\ heap' = [heap EXCEPT ![header_6_aligned] =
                    SetCard(@, "ALINGED", "Aligned to stars07_p.fits")]
    /\ apc' = "write"
    /\ UNCHANGED <<aerror, image_files, header_6, header_7, header_6_aligned,
                   aligned_file, photVars, dqVars>>

(* lines 47-48: fits.writeto('../images/stars06_aligned_example.fits', ...) *)
WriteAligned ==
    /\ apc = "write"
    /\ aligned_file' = heap[header_6_aligned]
    /\ apc' = "done"
    /\ UNCHANGED <<aerror, image_files, heap, header_6, header_7, header_6_aligned,
                   photVars, dqVars>>

NextAlign ==
    \/ LoadImage6 \/ LoadImage7 \/ AlignImages \/ NewHeader \/ AddKeyword
    \/ WriteAligned

AlignInit == InitAlign /\ PhotIdle /\ DqIdle

SpecAlign == AlignInit /\ [][NextAlign]_vars

(* C9: the header written with the aligned image is a new header: after the *)
(* keyword 'ALINGED' is added to header_6_aligned, the original header of   *)
(* image 6 (header_6) is still without that keyword.                        *)
C9_OriginalHeaderUntouched ==
    apc \in {"write", "done"} =>
        /\ "ALINGED" \in DOMAIN heap[header_6_aligned]
        /\ "ALINGED" \notin DOMAIN heap[header_6]

====
